---- MODULE Spec2Model ----
(***************************************************************************)
(* Strategy Request Service of the Pegasus Wealth Engine API               *)
(* (pwe_api/main.py): the chat, feedback and persistence paths, modelled   *)
(* as a state machine over the conversations table of history.db.          *)
(*                                                                         *)
(* A Python str is a sequence of one-character strings.  A strategy text   *)
(* is a sequence of segments in the order they were concatenated (each     *)
(* "+=" of the handler appends one segment).                               *)
(***************************************************************************)
EXTENDS Integers, Sequences, FiniteSets, TLC

(***************************************************************************)
(* Bounds of the model.                                                    *)
(***************************************************************************)
\* chat requests accepted in one behaviour
MaxRequests == 2
\* feedback calls made in one behaviour
MaxFeedback == 1
\* largest reading of the wall clock
MaxClock == 1

(***************************************************************************)
(* Strings.                                                                *)
(***************************************************************************)
UpperChars == <<"A","B","C","D","E","F","G","H","I","J","K","L","M",
                "N","O","P","Q","R","S","T","U","V","W","X","Y","Z">>
LowerChars == <<"a","b","c","d","e","f","g","h","i","j","k","l","m",
                "n","o","p","q","r","s","t","u","v","w","x","y","z">>
DigitChars == <<"0","1","2","3","4","5","6","7","8","9">>
Whitespace == {" ", "\t", "\n", "\r"}

\* str.lower() on one character (ASCII letters; others are unchanged)
UpperSet == {UpperChars[i] : i \in 1..Len(UpperChars)}
LowerOf ==
    [u \in UpperSet |-> LowerChars[CHOOSE i \in 1..Len(UpperChars) : UpperChars[i] = u]]
LowerChar(c) == IF c \in UpperSet THEN LowerOf[c] ELSE c

\* str.lower()
StrLower(s) == [i \in 1..Len(s) |-> LowerChar(s[i])]

\* s[:n]
Take(s, n) == IF Len(s) <= n THEN s ELSE SubSeq(s, 1, n)

\* str.strip(): leading and trailing whitespace removed
RECURSIVE LStrip(_)
LStrip(s) == IF s # <<>> /\ Head(s) \in Whitespace THEN LStrip(Tail(s)) ELSE s
RECURSIVE RStrip(_)
RStrip(s) ==
    IF s # <<>> /\ s[Len(s)] \in Whitespace
    THEN RStrip(SubSeq(s, 1, Len(s) - 1)) ELSE s
Strip(s) == RStrip(LStrip(s))

\* str.split(): the maximal runs of non-whitespace characters, in order
RECURSIVE SplitFrom(_, _, _)
SplitFrom(s, i, cur) ==
    IF i > Len(s) THEN (IF cur = <<>> THEN <<>> ELSE <<cur>>)
    ELSE IF s[i] \in Whitespace
         THEN (IF cur = <<>> THEN <<>> ELSE <<cur>>) \o SplitFrom(s, i + 1, <<>>)
         ELSE SplitFrom(s, i + 1, Append(cur, s[i]))
Split(s) == SplitFrom(s, 1, <<>>)

\* str(n) of a non-negative int
RECURSIVE PyStr(_)
PyStr(n) ==
    IF n < 10 THEN <<DigitChars[n + 1]>>
    ELSE Append(PyStr(n \div 10), DigitChars[(n % 10) + 1])

DigitValue(c) == (CHOOSE i \in 1..10 : DigitChars[i] = c) - 1
IsDigit(c) == \E i \in 1..10 : DigitChars[i] = c

RECURSIVE DigitsValue(_)
DigitsValue(s) ==
    IF s = <<>> THEN 0
    ELSE 10 * DigitsValue(SubSeq(s, 1, Len(s) - 1)) + DigitValue(s[Len(s)])

\* int(s): surrounding whitespace and one sign are accepted, then decimal
\* digits; anything else raises ValueError
PyInt(s) ==
    LET t == Strip(s)
        signed == t # <<>> /\ Head(t) \in {"+", "-"}
        d == IF signed THEN Tail(t) ELSE t
    IN  IF d # <<>> /\ \A i \in 1..Len(d) : IsDigit(d[i])
        THEN [exc |-> FALSE,
              val |-> IF signed /\ Head(t) = "-" THEN 0 - DigitsValue(d)
                      ELSE DigitsValue(d)]
        ELSE [exc |-> TRUE, val |-> 0]

(***************************************************************************)
(* Inputs.                                                                 *)
(***************************************************************************)
\* request.prompt: "Gig" and "gig" are equal after lowercasing, " " has no
\* token at all and is no substring of the other two
Prompts == { <<"G","i","g">>, <<"g","i","g">>, <<" ">> }

\* The prompts of the rows of a store that is already filled when a
\* behaviour starts: the i-th is one of three words followed by i.
StoreWords == << <<"G","i","g">>, <<"s","e","l","l">>, <<"b","l","o","g">> >>
StorePrompt(i) == StoreWords[(i % 3) + 1] \o <<" ">> \o PyStr(i)

\* the md5 hexdigest of "sell 1", "blog 2", "gig 3", ... "gig 60"
StoreMd5 ==
    << "774eb4c3fdfae871b89326a29b1ec14b", "972632bd7870ba44a992bcc17d1b93b7",
       "d1ec3392957b1f42002ae9d9cc50d5df", "fc6c75b5d8f8de7b89f8f4286cf73319",
       "7fea1f49559325775a717b6e41948568", "71ea1779b09b2adf7b239fe9960a1d58",
       "e47630a31ddf51f761363860af24765e", "a98b75d59e2730ca1ea91e354348eea3",
       "3292e9078e78754b57ce637169097612", "7a2776892e6fa7766170f78bc167626d",
       "ef14844d252ad92d83f335d7882af23d", "0a3b601dc25300a36f98ce5ad5870d4a",
       "30b6518dbee72bf6bc375ec23c82926d", "0d66ef4d1bd624e1b184b430811ff213",
       "b157091f551bbb5cbe7f539abed1c7df", "93324bc70b5a64a9572ff55b873d4b20",
       "6fb8ed8a12e157aee8f0a1864b13ec2a", "0cc666b3d91d98685327a50c6078ec29",
       "82256db9fe753df33a902d5541512218", "5062da1cab21dd25500c37a1f796a707",
       "38534340f01bf65dcaf2b44d99af4d33", "12b61e02c9f63b935676590d96d9399a",
       "71c484496c49a39b8a21c3f4e32faad9", "340e379770ab8c39ed3b49cc38a633be",
       "a577f8b62d5f524927a7ce2ad243fd24", "ae3a95bf859674e8dde5c6a97a160e8c",
       "0c6f2fbc9439ca25eb34bba012f8f1f6", "a2835fc7b8f06c7ee275fb74b38e84ea",
       "39074f7204829fc87efa3935fea929f3", "01d9fea11dfb002ffbab1f20abca3131",
       "5dbeec1675b063ea283fcdfb958e9af2", "9ad770f9ef18657dfc7273c03a5fff2d",
       "26e22b1312154d82a6ba2999a60e4c19", "62563d240d735c6e24e85325a73e6062",
       "200fba41909757abca1116b5b727a116", "b6e0050244a0bff0860d90b3cc479270",
       "0e769a09df95892894c594ed5f85b704", "c4e1fff992f89b83b9c508b21ec624c6",
       "8cdce7fb70a41f481bd7d9640dd0b4da", "9a2515fb9dddbad8b2f7cbeded054c3b",
       "2164567396f81b01b8910f87acc8b1be", "5539891acb16ac7f70f219bcd3676caa",
       "9d086280edbcdce29ff7b91a5dc4a79c", "5e3a57babf7f16d4a4246ab268233dc2",
       "9384fdb9774994084ada44b014410c74", "dada0b16b8be6922cd446bbff61006d9",
       "9474254fbcbbf13f0a10bcebe5b67f89", "a424742e06bab60e6927235eef77c13e",
       "79f845a4826b561a93ffd6a33ea40990", "b5174e1dbb4ada21a467242a6c97ca2a",
       "97c896b7f4b3d8bc09f7ef0a3ad853dd", "0e703a1de392ee7cdb1fa8c3d406fa09",
       "89f3d16c3b9a2583136fcf1f834043bf", "8f71fe31c37c18d5afb9e41e6742860e",
       "f3b0387d206001c48b4f89e9dd58cac1", "ad7ab566df085787e25cd6650e664ae9",
       "3162a72624f597c0edc969a0c406c326", "86fbb5b9c367441f9762059c5a0bb575",
       "8a5863e97f2a1945a776da333d7b67b6", "dec2b39fa6d3acd0b6170a2089ab87e7" >>

\* hashlib.md5(x.encode()).hexdigest() of the lowercased prompts
Md5Hex(x) ==
    CASE x = <<"g","i","g">> -> "97d6804053f94cbda00ec523d7d6b8a6"
      [] x = <<" ">>         -> "7215ee9c7d9dc229d2921a40e899ec5f"
      [] OTHER -> StoreMd5[CHOOSE i \in DOMAIN StoreMd5 : StrLower(StorePrompt(i)) = x]

get_prompt_hash(prompt) == Md5Hex(StrLower(prompt))

None == "None"

\* max() of a set of ints, and 0 for the empty set
SetMax(S) == IF S = {} THEN 0 ELSE CHOOSE m \in S : \A x \in S : x <= m
Min(a, b) == IF a <= b THEN a ELSE b
\* min() of a non-empty set of ints
SetMin(S) == CHOOSE m \in S : \A x \in S : m <= x

\* "w in s" of Python: w occurs in s as a substring
Contains(s, w) ==
    \E i \in 1..(Len(s) - Len(w) + 1) : SubSeq(s, i, i + Len(w) - 1) = w

(***************************************************************************)
(* Generation engine (class AIEngine).                                     *)
(***************************************************************************)
\* AIEngine.__init__ and load_model: stage names the step of load_model
\* that raises ("none": all three succeed).  Whatever raised, the except
\* branch clears the three fields together.
load_model(stage) ==
    IF stage = "none"
    THEN [tokenizer |-> "facebook/opt-1.3b", model |-> "facebook/opt-1.3b",
          generator |-> "text-generation"]
    ELSE [tokenizer |-> None, model |-> None, generator |-> None]

LoadStages == {"none", "tokenizer", "model", "pipeline"}

FreelanceWords ==
    << <<"f","r","e","e","l","a","n","c","e">>,
       <<"g","i","g">>,
       <<"s","e","r","v","i","c","e">> >>
OnlineWords ==
    << <<"o","n","l","i","n","e">>,
       <<"d","i","g","i","t","a","l">>,
       <<"i","n","t","e","r","n","e","t">> >>
EcommerceWords ==
    << <<"s","e","l","l">>,
       <<"p","r","o","d","u","c","t">>,
       <<"e","c","o","m","m","e","r","c","e">> >>
InvestmentWords ==
    << <<"i","n","v","e","s","t">>,
       <<"s","t","o","c","k">>,
       <<"c","r","y","p","t","o">> >>

\* any(word in prompt_lower for word in words)
AnyWordIn(words, prompt_lower) ==
    \E i \in 1..Len(words) : Contains(prompt_lower, words[i])

\* a chain that tests the investment words first
CategoryInvestmentFirst(prompt) ==
    LET prompt_lower == StrLower(prompt)
    IN  IF AnyWordIn(InvestmentWords, prompt_lower) THEN "investment"
        ELSE IF AnyWordIn(FreelanceWords, prompt_lower) THEN "freelance"
        ELSE IF AnyWordIn(OnlineWords, prompt_lower) THEN "online"
        ELSE IF AnyWordIn(EcommerceWords, prompt_lower) THEN "ecommerce"
        ELSE "online"

\* the if/elif chain that picks the template
Category(prompt) ==
    LET prompt_lower == StrLower(prompt)
    IN  IF AnyWordIn(FreelanceWords, prompt_lower) THEN "freelance"
        ELSE IF AnyWordIn(OnlineWords, prompt_lower) THEN "online"
        ELSE IF AnyWordIn(EcommerceWords, prompt_lower) THEN "ecommerce"
        ELSE IF AnyWordIn(InvestmentWords, prompt_lower) THEN "investment"
        ELSE "online"

\* generate_fallback_strategy: the text is the f-string "customized", a
\* fixed frame around the prompt and strategies[category]; it is held as
\* one segment that names these two parts.
generate_fallback_strategy(prompt) ==
    << [t |-> "customized", prompt |-> prompt, base_strategy |-> Category(prompt)] >>

\* What the call self.generator(...) does in one request: it raises, it
\* returns something that response[0]['generated_text'] cannot read, or it
\* returns a text.  pieces is generated_text.split("Strategy:") without
\* its first element; the wrapper ends in "Strategy:", so there is always
\* at least one piece.
GeneratorOutcomes ==
    { [kind |-> "raise", pieces |-> <<>>],
      [kind |-> "malformed", pieces |-> <<>>],
      [kind |-> "text", pieces |-> << <<" ","P","l","a","n",":"," ">>,
                                      <<" ","b","l","o","g","\n">> >>] }

\* lines 133-144: the call, then the text after the last "Strategy:"
GeneratorPath(out) ==
    IF out.kind = "text"
    THEN [exc |-> FALSE,
          val |-> << [t |-> "generated", text |-> Strip(out.pieces[Len(out.pieces)])] >>]
    ELSE [exc |-> TRUE, val |-> <<>>]

\* the try block of generate_money_strategy
GenerateTry(engine, prompt, out) ==
    IF engine.generator # None
    THEN GeneratorPath(out)
    ELSE [exc |-> FALSE, val |-> generate_fallback_strategy(prompt)]

\* a generate_money_strategy without its except branch
GenerateNoExcept(engine, prompt, out) == GenerateTry(engine, prompt, out)

\* generate_money_strategy: try, and the fallback on any exception
generate_money_strategy(engine, prompt, out) ==
    LET r == GenerateTry(engine, prompt, out)
    IN  IF r.exc
        THEN [exc |-> FALSE, val |-> generate_fallback_strategy(prompt)]
        ELSE r

(***************************************************************************)
(* The texts of the engine and of the handler, character by character.     *)
(***************************************************************************)
\* a string literal as the sequence of its characters
Chars(s) == [i \in 1..Len(s) |-> SubSeq(s, i, i)]

\* the two characters of the source outside ASCII, each one element
Bullet == "U+2022"
ChartEmoji == "U+1F4CA"

\* the lines of a block of a triple-quoted literal, each ended by "\n"
RECURSIVE Unlines(_)
Unlines(lines) ==
    IF lines = <<>> THEN <<>>
    ELSE Chars(Head(lines)) \o <<"\n">> \o Unlines(Tail(lines))

\* the dict strategies of generate_fallback_strategy, lines 158-195
StrategyLines ==
    [freelance |->
        << "1. Create profiles on Upwork, Fiverr, and Freelancer",
           "2. Identify your core skills (writing, design, programming, etc.)",
           "3. Start with competitive pricing to build reviews",
           "4. Focus on quick turnaround projects initially",
           "5. Gradually increase rates as you build reputation",
           "6. Aim for $20-50/hour within first month",
           "7. Scale by offering package deals and retainer clients" >>,
     online |->
        << "1. Choose a profitable niche (health, finance, tech)",
           "2. Create valuable content (blog, YouTube, social media)",
           "3. Build an email list of potential customers",
           "4. Develop digital products (courses, ebooks, tools)",
           "5. Use affiliate marketing for passive income",
           "6. Monetize through ads, sponsorships, and partnerships",
           "7. Scale with automation and outsourcing" >>,
     ecommerce |->
        << "1. Research trending products with low competition",
           "2. Find reliable suppliers (Alibaba, local manufacturers)",
           "3. Create an online store (Shopify, Amazon FBA)",
           "4. Optimize product listings with SEO",
           "5. Run targeted social media ads",
           "6. Focus on customer service and reviews",
           "7. Expand product line based on successful items" >>,
     investment |->
        << "1. Start with index funds for stable growth",
           "2. Learn about dividend stocks for passive income",
           "3. Consider REITs for real estate exposure",
           "4. Use dollar-cost averaging for consistent investing",
           "5. Keep emergency fund of 3-6 months expenses",
           "6. Diversify across asset classes and sectors",
           "7. Reinvest profits to compound returns" >>]

Categories == DOMAIN StrategyLines

\* strategies[category]: the literal opens with a line break
strategies == [category \in Categories |-> <<"\n">> \o Unlines(StrategyLines[category])]

\* the fixed parts of the f-string customized, lines 213-232
CustomizedHead == Chars("\n**Money-Making Strategy for: ")
CustomizedTail ==
    Chars("\n\n**Quick Start Actions:**\n")
    \o Unlines(<< "1. Set up necessary accounts today",
                  "2. Complete profile/setup within 24 hours",
                  "3. Launch first offering within 48 hours",
                  "4. Track daily progress and earnings",
                  "5. Optimize based on results weekly",
                  "",
                  "**Expected Timeline:**",
                  "- Week 1: Setup and first attempts ($0-50)",
                  "- Week 2-4: Build momentum ($50-200/week)",
                  "- Month 2-3: Scale operations ($200-500/week)",
                  "- Month 4+: Full optimization ($500+/week)",
                  "",
                  "Remember: Success requires consistent action and adaptation!" >>)

CustomizedMid == Chars("**\n\n")

\* the value of customized for a prompt and a category
Customized(prompt, category) ==
    CustomizedHead \o prompt \o CustomizedMid \o strategies[category] \o CustomizedTail

\* the fixed parts of the two f-strings of chat_completions, lines 383-385
InsightsHead == Chars("\n\n**") \o <<ChartEmoji>> \o Chars(" Based on ")
InsightsTail == Chars(" similar queries, here are additional insights:**\n")
PreviousHead == Chars(". Previous approach: ")
PreviousTail == Chars("...\n")

\* the characters of one segment of a strategy
SegmentText(seg) ==
    CASE seg.t = "generated" -> seg.text
      [] seg.t = "customized" -> Customized(seg.prompt, seg.base_strategy)
      [] seg.t = "insights" -> InsightsHead \o PyStr(seg.count) \o InsightsTail
      [] seg.t = "previous" -> PyStr(seg.i) \o PreviousHead \o seg.prompt \o PreviousTail

\* the str a strategy is: its segments one after the other
RECURSIVE Text(_)
Text(strategy) ==
    IF strategy = <<>> THEN <<>>
    ELSE SegmentText(Head(strategy)) \o Text(Tail(strategy))

(***************************************************************************)
(* Persistence store: table conversations of history.db.                   *)
(***************************************************************************)
\* column defaults of CREATE TABLE
DefaultSuccessScore == 0
DefaultEarnings == 0

\* a table whose every insert is given the first rowid
FirstRowid(rows, seq) == 1

\* AUTOINCREMENT: one more than the largest rowid the table ever held
NextRowid(rows, seq) == SetMax({seq} \cup {r.id : r \in rows}) + 1

\* a plain INSERT that ignores the UNIQUE constraint on prompt_hash
InsertKeepingOld(rows, seq, prompt_hash, prompt, response, timestamp) ==
    LET id == NextRowid(rows, seq)
    IN  [rows |-> rows \cup
                  { [id |-> id, prompt_hash |-> prompt_hash, prompt |-> prompt,
                     response |-> response, timestamp |-> timestamp,
                     success_score |-> DefaultSuccessScore,
                     earnings |-> DefaultEarnings] },
         seq |-> id, lastrowid |-> id]

\* a REPLACE that deletes the row of the prompt_hash and inserts nothing
\* in its place
ReplaceByDelete(rows, seq, prompt_hash, prompt, response, timestamp) ==
    IF \E r \in rows : r.prompt_hash = prompt_hash
    THEN [rows |-> {r \in rows : r.prompt_hash # prompt_hash}, seq |-> seq,
          lastrowid |-> seq]
    ELSE InsertKeepingOld(rows, seq, prompt_hash, prompt, response, timestamp)

\* INSERT OR REPLACE INTO conversations (prompt_hash, prompt, response,
\* timestamp): the row that holds the same prompt_hash is deleted, and a new
\* row is inserted with a new id and the defaults in the columns not named
InsertOrReplace(rows, seq, prompt_hash, prompt, response, timestamp) ==
    LET id == NextRowid(rows, seq)
    IN  [rows |-> {r \in rows : r.prompt_hash # prompt_hash} \cup
                  { [id |-> id, prompt_hash |-> prompt_hash, prompt |-> prompt,
                     response |-> response, timestamp |-> timestamp,
                     success_score |-> DefaultSuccessScore,
                     earnings |-> DefaultEarnings] },
         seq |-> id, lastrowid |-> id]

\* the UPDATE without its WHERE clause
UpdateEveryRow(rows, id, success_score, earnings) ==
    { [r EXCEPT !.success_score = success_score, !.earnings = earnings] : r \in rows }

\* UPDATE conversations SET success_score = ?, earnings = ? WHERE id = ?
UpdateFeedback(rows, id, success_score, earnings) ==
    { IF r.id = id
      THEN [r EXCEPT !.success_score = success_score, !.earnings = earnings]
      ELSE r : r \in rows }

\* cursor.rowcount of that UPDATE
Matched(rows, id) == Cardinality({r \in rows : r.id = id})

(***************************************************************************)
(* Similarity lookup.                                                      *)
(***************************************************************************)
\* the LIKE operator of SQLite on lowercased operands: % matches any run of
\* characters, _ matches one character
RECURSIVE Like(_, _)
Like(pat, s) ==
    IF pat = <<>> THEN s = <<>>
    ELSE IF Head(pat) = "%"
         THEN Like(Tail(pat), s) \/ (s # <<>> /\ Like(pat, Tail(s)))
         ELSE /\ s # <<>>
              /\ Head(pat) = "_" \/ Head(pat) = Head(s)
              /\ Like(Tail(pat), Tail(s))

\* LOWER(prompt) LIKE '%word%'
LikeWord(word, prompt) == Like(<<"%">> \o word \o <<"%">>, StrLower(prompt))

\* LIMIT 5 of the query, and words[:5]
SimilarLimit == 5
WordLimit == 5

\* the rows the WHERE clause of get_similar_strategies selects
SimilarRows(rows, words) ==
    {r \in rows : \E i \in 1..Len(words) : LikeWord(words[i], r.prompt)}

\* every order of the elements of a set of rows that tie in the ORDER BY
Arrangements(G) ==
    {q \in [1..Cardinality(G) -> G] : \A i, j \in 1..Cardinality(G) : i # j => q[i] # q[j]}

\* ORDER BY timestamp DESC: every order of the rows S that has the later
\* timestamps first (SQL leaves the order of equal timestamps open)
RECURSIVE OrderedDesc(_)
OrderedDesc(S) ==
    IF S = {} THEN { <<>> }
    ELSE LET G == {r \in S : \A q \in S : q.timestamp <= r.timestamp}
         IN  {g \o rest : g \in Arrangements(G), rest \in OrderedDesc(S \ G)}

\* the dict built for each row fetched
SimilarDict(row) ==
    [id |-> row.id, prompt |-> row.prompt, response |-> row.response,
     timestamp |-> row.timestamp, success_score |-> row.success_score]

\* a word with a quote character ends the string literal of its LIKE
\* early; for the words of the model what follows is no SQL, and execute
\* raises a syntax error
BreaksQuery(words) == \E i \in 1..Len(words) : Contains(words[i], <<"'">>)

\* the try block of get_similar_strategies: the outcomes it can have.
\* dbfail: connect or execute raises.  A prompt without tokens gives
\* "WHERE  ORDER BY", a syntax error.
SimilarTry(rows, prompt, dbfail) ==
    LET words == Take(Split(StrLower(prompt)), WordLimit)
    IN  IF dbfail \/ words = <<>> \/ BreaksQuery(words)
        THEN { [exc |-> TRUE, val |-> <<>>] }
        ELSE { [exc |-> FALSE,
                val |-> [i \in 1..Min(Len(q), SimilarLimit) |-> SimilarDict(q[i])]] :
                 q \in OrderedDesc(SimilarRows(rows, words)) }

\* a get_similar_strategies without its except branch
SimilarNoExcept(rows, prompt, dbfail) == SimilarTry(rows, prompt, dbfail)

\* get_similar_strategies: every exception ends in the except branch,
\* which returns []
get_similar_strategies(rows, prompt, dbfail) ==
    { IF o.exc THEN [exc |-> FALSE, val |-> <<>>] ELSE o :
        o \in SimilarTry(rows, prompt, dbfail) }

(***************************************************************************)
(* Output post-processor: extract_suggested_actions and estimate_earnings. *)
(***************************************************************************)
\* strategy.split('\n'): the pieces between the line breaks, empty ones
\* included
RECURSIVE SplitLinesFrom(_, _)
SplitLinesFrom(s, i) ==
    LET breaks == {k \in i..Len(s) : s[k] = "\n"}
    IN  IF breaks = {} THEN <<SubSeq(s, i, Len(s))>>
        ELSE LET k == SetMin(breaks)
             IN  <<SubSeq(s, i, k - 1)>> \o SplitLinesFrom(s, k + 1)
SplitLines(s) == SplitLinesFrom(s, 1)

\* s.startswith(prefix)
StartsWith(s, prefix) ==
    Len(s) >= Len(prefix) /\ SubSeq(s, 1, Len(prefix)) = prefix

\* the prefixes that make a line an action, and the characters lstrip takes
ActionPrefixes ==
    << <<"1", ".">>, <<"2", ".">>, <<"3", ".">>, <<"4", ".">>, <<"5", ".">>,
       <<"-">>, <<Bullet>> >>
ActionStripChars == {"1", "2", "3", "4", "5", "6", "7", "8", "9", ".", "-", Bullet, " "}

\* len(action) > 10 and actions[:5]
ActionMinLen == 10
ActionLimit == 5

\* s.lstrip(chars): the longest head of s made of chars is removed
RECURSIVE LStripOf(_, _)
LStripOf(s, chars) ==
    IF s # <<>> /\ Head(s) \in chars THEN LStripOf(Tail(s), chars) ELSE s

\* the loop of extract_suggested_actions over the lines
RECURSIVE ActionsOf(_)
ActionsOf(lines) ==
    IF lines = <<>> THEN <<>>
    ELSE LET line == Strip(Head(lines))
             action == Strip(LStripOf(line, ActionStripChars))
         IN  (IF /\ \E i \in 1..Len(ActionPrefixes) : StartsWith(line, ActionPrefixes[i])
                 /\ action # <<>> /\ Len(action) > ActionMinLen
              THEN <<action>> ELSE <<>>)
             \o ActionsOf(Tail(lines))

extract_suggested_actions(strategy) == Take(ActionsOf(SplitLines(strategy)), ActionLimit)

\* The regular expression \$(\d+(?:,\d{3})*(?:\.\d{2})?) from a position
\* on.  Each part takes all it can and nothing after it can fail, so the
\* match at a "$" that a digit follows is found without going back.
\* DigitsEnd: the last index of the run of digits that holds index i.
RECURSIVE DigitsEnd(_, _)
DigitsEnd(s, i) ==
    IF i + 1 <= Len(s) /\ IsDigit(s[i + 1]) THEN DigitsEnd(s, i + 1) ELSE i

\* (?:,\d{3})* after index j
RECURSIVE GroupsEnd(_, _)
GroupsEnd(s, j) ==
    IF /\ j + 4 <= Len(s)
       /\ s[j + 1] = ","
       /\ IsDigit(s[j + 2]) /\ IsDigit(s[j + 3]) /\ IsDigit(s[j + 4])
    THEN GroupsEnd(s, j + 4) ELSE j

\* (?:\.\d{2})? after index j
CentsEnd(s, j) ==
    IF j + 3 <= Len(s) /\ s[j + 1] = "." /\ IsDigit(s[j + 2]) /\ IsDigit(s[j + 3])
    THEN j + 3 ELSE j

\* re.findall: the groups of the matches from index i on, left to right
RECURSIVE FindAmounts(_, _)
FindAmounts(s, i) ==
    LET starts == {k \in i..(Len(s) - 1) : s[k] = "$" /\ IsDigit(s[k + 1])}
    IN  IF starts = {} THEN <<>>
        ELSE LET k == SetMin(starts)
                 e == CentsEnd(s, GroupsEnd(s, DigitsEnd(s, k + 1)))
             IN  <<SubSeq(s, k + 1, e)>> \o FindAmounts(s, e + 1)

\* amounts[0].replace(',', '')
RemoveCommas(s) == SelectSeq(s, LAMBDA c : c # ",")

\* the words of the three tests and the strings returned
ShortTermWords == << Chars("day"), Chars("today"), Chars("quickly") >>
WeeklyWords == << Chars("week"), Chars("weekly") >>
MonthlyWords == << Chars("month"), Chars("monthly") >>
TargetHead == Chars("Target: $")
TargetTail == Chars(" (as specified)")
ShortTermEstimate == Chars("$50-200 (short-term)")
WeeklyEstimate == Chars("$200-1000 (weekly potential)")
MonthlyEstimate == Chars("$1000-5000 (monthly potential)")
TypicalEstimate == Chars("$100-500 (typical range)")

\* a chain that tests the week before the day
DefaultEstimateWeekFirst(prompt_lower) ==
    IF AnyWordIn(WeeklyWords, prompt_lower) THEN WeeklyEstimate
    ELSE IF AnyWordIn(ShortTermWords, prompt_lower) THEN ShortTermEstimate
    ELSE IF AnyWordIn(MonthlyWords, prompt_lower) THEN MonthlyEstimate
    ELSE TypicalEstimate

\* the if/elif chain of estimate_earnings
DefaultEstimate(prompt_lower) ==
    IF AnyWordIn(ShortTermWords, prompt_lower) THEN ShortTermEstimate
    ELSE IF AnyWordIn(WeeklyWords, prompt_lower) THEN WeeklyEstimate
    ELSE IF AnyWordIn(MonthlyWords, prompt_lower) THEN MonthlyEstimate
    ELSE TypicalEstimate

\* an estimate that takes the last amount of the prompt
EstimateLastAmount(prompt, strategy) ==
    LET prompt_lower == StrLower(prompt)
        amounts == FindAmounts(prompt, 1)
    IN  IF amounts # <<>>
        THEN TargetHead \o RemoveCommas(amounts[Len(amounts)]) \o TargetTail
        ELSE DefaultEstimate(prompt_lower)

estimate_earnings(prompt, strategy) ==
    LET prompt_lower == StrLower(prompt)
        amounts == FindAmounts(prompt, 1)
    IN  IF amounts # <<>>
        THEN TargetHead \o RemoveCommas(amounts[1]) \o TargetTail
        ELSE DefaultEstimate(prompt_lower)

(***************************************************************************)
(* Request orchestrator: the pure parts of chat_completions.               *)
(***************************************************************************)
\* similar['prompt'][:100] and similar_strategies[:2]
PreviewLen == 100
PreviewCount == 2

\* lines 382-385: the note appended when similar strategies were found
Enrich(strategy, similar) ==
    IF similar # <<>>
    THEN strategy
         \o << [t |-> "insights", count |-> Len(similar)] >>
         \o [i \in 1..Min(Len(similar), PreviewCount) |->
                [t |-> "previous", i |-> i, prompt |-> Take(similar[i].prompt, PreviewLen)]]
    ELSE strategy

\* confidence, in hundredths (0.6 + 0.1 and 0.8 + 0.1 are exactly the
\* doubles 0.7 and 0.9, so the hundredths lose nothing)
ConfModel == 80
ConfFallback == 60
ConfSimilar == 10
ConfCap == 95

\* a bonus large enough to reach the cap
ConfidenceBigBonus(engine, similar) ==
    Min((IF engine.model # None THEN ConfModel ELSE ConfFallback)
        + (IF similar # <<>> THEN 2 * ConfSimilar ELSE 0), ConfCap)

\* a base that ignores the engine
ConfidenceFixedBase(engine, similar) ==
    Min(ConfModel + (IF similar # <<>> THEN ConfSimilar ELSE 0), ConfCap)

\* lines 396-404
Confidence(engine, similar) ==
    Min((IF engine.model # None THEN ConfModel ELSE ConfFallback)
        + (IF similar # <<>> THEN ConfSimilar ELSE 0), ConfCap)

\* "temp_" + str(datetime.datetime.now().timestamp()): the clock counts
\* whole seconds, and str() of such a float ends in ".0"
TempId(now) == <<"t","e","m","p","_">> \o PyStr(now) \o <<".","0">>

\* a save_conversation whose except branch re-raises
SaveExceptRaises(now) == [exc |-> TRUE, val |-> <<>>]

\* an except branch that returns one fixed identifier
SaveExceptFixed(now) == [exc |-> FALSE, val |-> TempId(0)]

\* a save by plain INSERT
SaveExecutePlainInsert(rows, seq, prompt, response, now) ==
    InsertKeepingOld(rows, seq, get_prompt_hash(prompt), prompt, response, now)

\* lines 284-286: the except branch of save_conversation
SaveExcept(now) == [exc |-> FALSE, val |-> TempId(now)]

\* lines 269-278 of save_conversation: what the connection holds after
\* cursor.execute, before conn.commit
SaveExecute(rows, seq, prompt, response, now) ==
    InsertOrReplace(rows, seq, get_prompt_hash(prompt), prompt, response, now)

\* submit_feedback, the whole handler: dbfail is connect, execute or commit
\* raising; int(strategy_id) raises on a non-numeric identifier.  Either
\* exception ends in the HTTPException of the except branch.
submit_feedback(rows, strategy_id, success_score, earnings, dbfail) ==
    LET id == PyInt(strategy_id)
    IN  IF dbfail \/ id.exc
        THEN [status |-> 500, rows |-> rows]
        ELSE [status |-> 200, rows |-> UpdateFeedback(rows, id.val, success_score, earnings)]

(***************************************************************************)
(* GET /v1/history: the pure part of get_history.                          *)
(***************************************************************************)
\* LIMIT 50, LIMIT 10 and row[3][:200]
HistoryLimit == 50
TopLimit == 10
ResponseHead == 200

\* ORDER BY success_score DESC, earnings DESC puts r before q
Outranks(r, q) ==
    \/ r.success_score > q.success_score
    \/ r.success_score = q.success_score /\ r.earnings > q.earnings

\* every order of the rows S the second query can give (ties are open)
RECURSIVE OrderedByScore(_)
OrderedByScore(S) ==
    IF S = {} THEN { <<>> }
    ELSE LET G == {r \in S : \A q \in S : ~Outranks(q, r)}
         IN  {g \o rest : g \in Arrangements(G), rest \in OrderedByScore(S \ G)}

\* the rows of the second query: WHERE success_score > 0
TopRows(rows) == {r \in rows : r.success_score > 0}

\* the "..." put after the first 200 characters of a response
Ellipsis == Chars("...")

\* the dicts of the two lists of HistoryResponse
ConversationDict(row) ==
    [id |-> row.id, prompt |-> row.prompt,
     response |-> Take(Text(row.response), ResponseHead) \o Ellipsis,
     timestamp |-> row.timestamp, success_score |-> row.success_score,
     earnings |-> row.earnings]
TopDict(row) ==
    [id |-> row.id, prompt |-> row.prompt, success_score |-> row.success_score,
     earnings |-> row.earnings]

\* get_history: the set of responses it can give on the rows.  dbfail:
\* connect or execute raises, and the handler answers 500.
get_history(rows, dbfail) ==
    IF dbfail
    THEN { [status |-> 500, conversations |-> <<>>, total_strategies |-> 0,
            top_performing |-> <<>>] }
    ELSE { LET conv == [i \in 1..Min(Len(q), HistoryLimit) |-> ConversationDict(q[i])]
           IN  [status |-> 200, conversations |-> conv, total_strategies |-> Len(conv),
                top_performing |-> [i \in 1..Min(Len(t), TopLimit) |-> TopDict(t[i])]] :
             q \in OrderedDesc(rows), t \in OrderedByScore(TopRows(rows)) }

(***************************************************************************)
(* State.                                                                  *)
(***************************************************************************)
\* The workers that run the handlers.  uvicorn.run (lines 546-552) starts
\* one worker, and its handlers are coroutines that never await: the server
\* as written handles one request at a time (Spec).  SpecConc adds a
\* second worker on the same history.db, for the parallel callers of
\* save_conversation.
Worker == "w1"
Callers == {"w1", "w2"}

VARIABLES
    ai_engine,        \* the module-level AIEngine instance
    conversations,    \* committed rows of table conversations
    sqlite_sequence,  \* the AUTOINCREMENT counter of the table
    db_lock,          \* the caller whose connection holds the write lock
    clock,            \* datetime.datetime.now()
    req,              \* per caller: the chat request it is handling
    fb,               \* last POST /v1/feedback: its status, and the rows
                      \* whose id was the strategy_id sent
    nreq,             \* chat requests accepted so far
    nfb,              \* feedback calls made so far
    issued,           \* history: (strategy_id, hash) of every committed save
    hist,             \* the response of the last GET /v1/history, until the
                      \* next request is accepted
    call              \* a single call of one of the module's functions:
                      \* its arguments and what it returned

\* the desktop application (pwe_app/main.py), a process of its own
VARIABLES
    running_bots,     \* BotRunner.running_bots
    bot_results,      \* BotRunner.bot_results
    run,              \* per calling thread: its call of BotRunner.run_bot
    bot_threads,      \* the threads started by run_bot that have not ended
    nruns             \* calls of run_bot so far

api_vars == <<ai_engine, conversations, sqlite_sequence, db_lock, clock, req, fb,
              nreq, nfb, issued, hist, call>>

app_vars == <<running_bots, bot_results, run, bot_threads, nruns>>

vars == <<api_vars, app_vars>>

\* the threads that call run_bot: the Kivy main thread, through run_bots,
\* and the thread of setup_scheduler, through scheduled_bot_run
CallerThreads == {"ui", "scheduler"}

\* a bot of run_all_bots, and a name run_bot does not know
BotNames == {"blog_bot", "tax_bot"}

\* BotRunner.__init__, and no call of run_bot yet
AppInit ==
    /\ running_bots = {}
    /\ bot_results = [b \in BotNames |-> None]
    /\ run = [t \in CallerThreads |->
                 [pc |-> "idle", bot_name |-> None, id |-> 0, ret |-> None]]
    /\ bot_threads = {}
    /\ nruns = 0

\* a caller with no request: locals of chat_completions not yet assigned
Idle ==
    [pc |-> "idle", prompt |-> <<>>, similar |-> <<>>, outcome |-> None,
     generated |-> <<>>, strategy |-> <<>>, txn |-> None, saved |-> FALSE,
     strategy_id |-> <<>>, status |-> 0, confidence |-> 0]

NoFeedback == [status |-> 0, matched |-> 0]
NoHistory ==
    [status |-> 0, conversations |-> <<>>, total_strategies |-> 0, top_performing |-> <<>>]
NoCall == [fn |-> None]

\* feedback inputs
Scores == {5}
EarningsValues == {20}
\* identifiers a client can send: the numeric ones up to the first id not
\* yet given out, and the one a failed save returns
FeedbackIds == {PyStr(n) : n \in 1..(sqlite_sequence + 1)} \cup {TempId(clock)}

Init ==
    /\ \E stage \in LoadStages : ai_engine = load_model(stage)
    /\ conversations = {}
    /\ sqlite_sequence = 0
    /\ db_lock = None
    /\ clock = 0
    /\ req = [c \in Callers |-> Idle]
    /\ fb = NoFeedback
    /\ nreq = 0
    /\ nfb = 0
    /\ issued = {}
    /\ hist = NoHistory
    /\ call = NoCall
    /\ AppInit

(***************************************************************************)
(* POST /v1/chat/completions, one action per stage of the handler.         *)
(***************************************************************************)
\* the except branch of chat_completions: HTTPException(status_code=500)
Raise500(c) == req' = [req EXCEPT ![c].pc = "done", ![c].status = 500]

Receive(c, prompt, limit) ==
    /\ req[c].pc \in {"idle", "done"}
    /\ nreq < limit
    /\ nreq' = nreq + 1
    /\ req' = [req EXCEPT ![c] = [Idle EXCEPT !.pc = "lookup", !.prompt = prompt]]
    /\ UNCHANGED <<app_vars, call, hist, ai_engine, conversations, sqlite_sequence, db_lock, clock,
                   fb, nfb, issued>>

\* line 376
LookupSimilar(c) ==
    /\ req[c].pc = "lookup"
    /\ \E dbfail \in BOOLEAN :
         \E looked \in get_similar_strategies(conversations, req[c].prompt, dbfail) :
            IF looked.exc
            THEN Raise500(c)
            ELSE req' = [req EXCEPT ![c].pc = "generate", ![c].similar = looked.val]
    /\ UNCHANGED <<app_vars, call, hist, ai_engine, conversations, sqlite_sequence, db_lock, clock, fb,
                   nreq, nfb, issued>>

\* the outcomes of the generator in one request; it is not called when it
\* is None
CallOutcomes(engine) ==
    IF engine.generator # None THEN GeneratorOutcomes
    ELSE { [kind |-> "not called", pieces |-> <<>>] }

\* a generation whose fallback takes the investment template once the
\* store holds a row
GenerateByStore(c) ==
    /\ req[c].pc = "generate"
    /\ \E out \in CallOutcomes(ai_engine) :
         LET r == generate_money_strategy(ai_engine, req[c].prompt, out)
             val == IF conversations # {} /\ r.val[1].t = "customized"
                    THEN << [r.val[1] EXCEPT !.base_strategy = "investment"] >>
                    ELSE r.val
         IN  IF r.exc
             THEN Raise500(c)
             ELSE req' = [req EXCEPT ![c].pc = "enrich", ![c].outcome = out.kind,
                                     ![c].generated = val, ![c].strategy = val]
    /\ UNCHANGED <<app_vars, call, hist, ai_engine, conversations, sqlite_sequence, db_lock, clock, fb,
                   nreq, nfb, issued>>

\* line 379
Generate(c) ==
    /\ req[c].pc = "generate"
    /\ \E out \in CallOutcomes(ai_engine) :
         LET r == generate_money_strategy(ai_engine, req[c].prompt, out)
         IN  IF r.exc
             THEN Raise500(c)
             ELSE req' = [req EXCEPT ![c].pc = "enrich", ![c].outcome = out.kind,
                                     ![c].generated = r.val, ![c].strategy = r.val]
    /\ UNCHANGED <<app_vars, call, hist, ai_engine, conversations, sqlite_sequence, db_lock, clock, fb,
                   nreq, nfb, issued>>

\* a handler that goes from the generation to the save without lines 382-385
EnrichSkipped(c) ==
    /\ req[c].pc = "enrich"
    /\ req' = [req EXCEPT ![c].pc = "persist"]
    /\ UNCHANGED <<app_vars, call, hist, ai_engine, conversations, sqlite_sequence, db_lock, clock, fb,
                   nreq, nfb, issued>>

\* lines 382-385
EnrichStep(c) ==
    /\ req[c].pc = "enrich"
    /\ req' = [req EXCEPT ![c].pc = "persist",
                          ![c].strategy = Enrich(req[c].strategy, req[c].similar)]
    /\ UNCHANGED <<app_vars, call, hist, ai_engine, conversations, sqlite_sequence, db_lock, clock, fb,
                   nreq, nfb, issued>>

\* save_conversation left through its except branch at time now
SaveFailed(c, now) ==
    LET r == SaveExcept(now)
    IN  IF r.exc
        THEN Raise500(c)
        ELSE req' = [req EXCEPT ![c].pc = "postprocess", ![c].txn = None,
                                ![c].strategy_id = r.val]

\* line 388, save_conversation up to cursor.execute and cursor.lastrowid.
\* The INSERT takes the write lock of the database file; a connection that
\* finds the lock taken waits, and raises "database is locked" when its
\* timeout ends.  dbfail: connect or execute raises.
Persist(c) ==
    /\ req[c].pc = "persist"
    /\ \E dbfail \in BOOLEAN :
         IF dbfail
         THEN /\ SaveFailed(c, clock)
              /\ UNCHANGED db_lock
         ELSE /\ db_lock = None
              /\ db_lock' = c
              /\ req' = [req EXCEPT ![c].pc = "commit",
                            ![c].txn = SaveExecute(conversations, sqlite_sequence,
                                                   req[c].prompt, req[c].strategy, clock)]
    /\ UNCHANGED <<app_vars, call, hist, ai_engine, conversations, sqlite_sequence, clock, fb, nreq, nfb,
                   issued>>

\* conn.commit, conn.close and the return of save_conversation.  A commit
\* that raises leaves the transaction to be rolled back when the
\* connection is dropped.
Commit(c) ==
    /\ req[c].pc = "commit"
    /\ db_lock' = None
    /\ \E dbfail \in BOOLEAN :
         IF dbfail
         THEN /\ SaveFailed(c, clock)
              /\ UNCHANGED <<conversations, sqlite_sequence, issued>>
         ELSE /\ conversations' = req[c].txn.rows
              /\ sqlite_sequence' = req[c].txn.seq
              /\ issued' = issued \cup
                    { [strategy_id |-> PyStr(req[c].txn.lastrowid),
                       prompt_hash |-> get_prompt_hash(req[c].prompt)] }
              /\ req' = [req EXCEPT ![c].pc = "postprocess", ![c].txn = None,
                                    ![c].saved = TRUE,
                                    ![c].strategy_id = PyStr(req[c].txn.lastrowid)]
    /\ UNCHANGED <<app_vars, call, hist, ai_engine, clock, fb, nreq, nfb>>

\* lines 390-411: post-processing and the ChatResponse.  suggested_actions
\* and estimated_earnings are computed from the strategy and the prompt
\* alone, by string functions that cannot raise; the state does not hold them.
Respond(c) ==
    /\ req[c].pc = "postprocess"
    /\ req' = [req EXCEPT ![c].pc = "done", ![c].status = 200,
                          ![c].confidence = Confidence(ai_engine, req[c].similar)]
    /\ UNCHANGED <<app_vars, call, hist, ai_engine, conversations, sqlite_sequence, db_lock, clock, fb,
                   nreq, nfb, issued>>

(***************************************************************************)
(* POST /v1/feedback.                                                      *)
(***************************************************************************)
\* The handler runs between two chat requests of the worker; the response
\* of an earlier GET /v1/history is gone by then.
Feedback(strategy_id, success_score, earnings) ==
    /\ nfb < MaxFeedback
    /\ \A c \in Callers : req[c].pc \in {"idle", "done"}
    /\ nfb' = nfb + 1
    /\ hist' = NoHistory
    /\ \E dbfail \in BOOLEAN :
         /\ LET r == submit_feedback(conversations, strategy_id, success_score,
                                     earnings, dbfail)
            IN  /\ conversations' = r.rows
                /\ fb' = [status |-> r.status,
                          matched |-> IF PyInt(strategy_id).exc THEN 0
                                      ELSE Matched(conversations, PyInt(strategy_id).val)]
    /\ UNCHANGED <<app_vars, call, ai_engine, sqlite_sequence, db_lock, clock, req, nreq, issued>>

(***************************************************************************)
(* GET /v1/history.                                                        *)
(***************************************************************************)
\* The handler runs between two chat requests of the worker, and reads the
\* committed rows.
History ==
    /\ \A c \in Callers : req[c].pc \in {"idle", "done"}
    /\ \E dbfail \in BOOLEAN : hist' \in get_history(conversations, dbfail)
    /\ UNCHANGED <<app_vars, call, ai_engine, conversations, sqlite_sequence, db_lock, clock,
                   req, fb, nreq, nfb, issued>>

\* time passes
Tick ==
    /\ clock < MaxClock
    /\ clock' = clock + 1
    /\ UNCHANGED <<app_vars, call, hist, ai_engine, conversations, sqlite_sequence, db_lock, req, fb,
                   nreq, nfb, issued>>

Next ==
    \/ \E prompt \in Prompts : Receive(Worker, prompt, MaxRequests)
    \/ LookupSimilar(Worker)
    \/ Generate(Worker)
    \/ EnrichStep(Worker)
    \/ Persist(Worker)
    \/ Commit(Worker)
    \/ Respond(Worker)
    \/ \E id \in FeedbackIds, s \in Scores, e \in EarningsValues : Feedback(id, s, e)
    \/ Tick

Spec == Init /\ [][Next]_vars

(***************************************************************************)
(* Two workers on one database: chat requests in parallel.                 *)
(***************************************************************************)
\* chat requests accepted in one behaviour of SpecConc
MaxConcRequests == 2

NextConc ==
    \/ \E c \in Callers, prompt \in Prompts : Receive(c, prompt, MaxConcRequests)
    \/ \E c \in Callers : LookupSimilar(c)
    \/ \E c \in Callers : Generate(c)
    \/ \E c \in Callers : EnrichStep(c)
    \/ \E c \in Callers : Persist(c)
    \/ \E c \in Callers : Commit(c)
    \/ \E c \in Callers : Respond(c)
    \/ Tick

SpecConc == Init /\ [][NextConc]_vars

(***************************************************************************)
(* The server as uvicorn.run starts it: one worker, whose three handlers   *)
(* are coroutines that never await, so that each request is handled from   *)
(* its first line to its response before the next one starts.  All the     *)
(* requests of a behaviour read the same time: the rows the handlers write *)
(* differ by it in their timestamp only.                                   *)
(***************************************************************************)
\* chat_completions as one step.  lookupfail: the lookup raises inside
\* get_similar_strategies; savefail: save_conversation raises before its
\* INSERT is done ("execute") or in conn.commit ("commit").
ChatCompletions(c, prompt) ==
    /\ \A d \in Callers : req[d].pc \in {"idle", "done"}
    /\ nreq < MaxRequests
    /\ nreq' = nreq + 1
    /\ hist' = NoHistory
    /\ \E lookupfail \in BOOLEAN, out \in CallOutcomes(ai_engine),
          savefail \in {"none", "execute", "commit"} :
         \E looked \in get_similar_strategies(conversations, prompt, lookupfail) :
            LET similar == looked.val
                g == generate_money_strategy(ai_engine, prompt, out)
                strategy == Enrich(g.val, similar)
                txn == SaveExecute(conversations, sqlite_sequence, prompt, strategy, clock)
                failed == SaveExcept(clock)
                locals == [Idle EXCEPT !.pc = "done", !.prompt = prompt,
                                       !.similar = similar, !.outcome = out.kind,
                                       !.generated = g.val, !.strategy = strategy]
                answer == [locals EXCEPT !.status = 200,
                                         !.confidence = Confidence(ai_engine, similar)]
            IN  IF looked.exc \/ g.exc \/ (savefail # "none" /\ failed.exc)
                THEN /\ req' = [req EXCEPT ![c] = [locals EXCEPT !.status = 500]]
                     /\ UNCHANGED <<conversations, sqlite_sequence, issued>>
                ELSE IF savefail # "none"
                THEN /\ req' = [req EXCEPT ![c] = [answer EXCEPT !.strategy_id = failed.val]]
                     /\ UNCHANGED <<conversations, sqlite_sequence, issued>>
                ELSE /\ conversations' = txn.rows
                     /\ sqlite_sequence' = txn.seq
                     /\ issued' = issued \cup
                           { [strategy_id |-> PyStr(txn.lastrowid),
                              prompt_hash |-> get_prompt_hash(prompt)] }
                     /\ req' = [req EXCEPT ![c] =
                                   [answer EXCEPT !.saved = TRUE,
                                                  !.strategy_id = PyStr(txn.lastrowid)]]
    /\ UNCHANGED <<app_vars, call, ai_engine, db_lock, clock, fb, nfb>>

NextServer ==
    \/ \E prompt \in Prompts : ChatCompletions(Worker, prompt)
    \/ \E id \in FeedbackIds, s \in Scores, e \in EarningsValues : Feedback(id, s, e)
    \/ History

SpecServer == Init /\ [][NextServer]_vars

(***************************************************************************)
(* A client of the server: chat requests, and feedback requests whose      *)
(* query parameters are kept with the outcome.                             *)
(***************************************************************************)
\* the default of the query parameter earnings, line 472
DefaultFeedbackEarnings == 0

\* the value FastAPI passes for earnings; sent holds the earnings
\* parameters of the query string: none, or one
QueryEarnings(sent) == IF sent = <<>> THEN DefaultFeedbackEarnings ELSE sent[1]

\* POST /v1/feedback?strategy_id=..&success_score=..[&earnings=..]
SubmitFeedback(strategy_id, success_score, sent) ==
    /\ nfb < MaxFeedback
    /\ \A c \in Callers : req[c].pc \in {"idle", "done"}
    /\ nfb' = nfb + 1
    /\ hist' = NoHistory
    /\ \E dbfail \in BOOLEAN :
         LET r == submit_feedback(conversations, strategy_id, success_score,
                                  QueryEarnings(sent), dbfail)
         IN  /\ conversations' = r.rows
             /\ fb' = [status |-> r.status,
                       matched |-> IF PyInt(strategy_id).exc THEN 0
                                   ELSE Matched(conversations, PyInt(strategy_id).val)]
             /\ call' = [fn |-> "submit_feedback", strategy_id |-> strategy_id,
                         success_score |-> success_score, earnings |-> sent,
                         dbfail |-> dbfail]
    /\ UNCHANGED <<app_vars, ai_engine, sqlite_sequence, db_lock, clock, req, nreq, issued>>

NextClient ==
    \/ \E prompt \in Prompts : ChatCompletions(Worker, prompt)
    \/ \E id \in FeedbackIds, s \in Scores,
          sent \in {<<e>> : e \in EarningsValues} \cup {<<>>} :
         SubmitFeedback(id, s, sent)

SpecClient == Init /\ [][NextClient]_vars

(***************************************************************************)
(* Errors that no stage handles.  The lookup, the generation and the save  *)
(* each catch every Exception themselves; the lines between them do not,   *)
(* so an exception raised there (a MemoryError while the text is built, a  *)
(* logging handler that fails) reaches the except clause of                *)
(* chat_completions, lines 413-415.                                        *)
(***************************************************************************)
\* lines 382-385 raise
EnrichRaises(c) ==
    /\ req[c].pc = "enrich"
    /\ Raise500(c)
    /\ UNCHANGED <<app_vars, call, hist, ai_engine, conversations, sqlite_sequence, db_lock, clock, fb,
                   nreq, nfb, issued>>

\* an except clause that takes the row of the request out of the store
PostprocessRollsBack(c) ==
    /\ req[c].pc = "postprocess"
    /\ Raise500(c)
    /\ conversations' = {r \in conversations :
                            r.prompt_hash # get_prompt_hash(req[c].prompt)}
    /\ UNCHANGED <<app_vars, call, hist, ai_engine, sqlite_sequence, db_lock, clock, fb,
                   nreq, nfb, issued>>

\* lines 390-411 raise; save_conversation has committed and closed its
\* connection by then
PostprocessRaises(c) ==
    /\ req[c].pc = "postprocess"
    /\ Raise500(c)
    /\ UNCHANGED <<app_vars, call, hist, ai_engine, conversations, sqlite_sequence, db_lock, clock, fb,
                   nreq, nfb, issued>>

NextFault ==
    \/ \E prompt \in Prompts : Receive(Worker, prompt, MaxRequests)
    \/ LookupSimilar(Worker)
    \/ Generate(Worker)
    \/ EnrichStep(Worker)
    \/ EnrichRaises(Worker)
    \/ Persist(Worker)
    \/ Commit(Worker)
    \/ Respond(Worker)
    \/ PostprocessRaises(Worker)
    \/ \E id \in FeedbackIds, s \in Scores, e \in EarningsValues : Feedback(id, s, e)
    \/ Tick

SpecFault == Init /\ [][NextFault]_vars

(***************************************************************************)
(* Progress of a chat request.  The worker runs the statements of the      *)
(* handler one after the other, so every stage made of the handler's own   *)
(* code is taken once it is enabled; this includes the generation when no  *)
(* generator is loaded, which is the template code of lines 146-148.  The  *)
(* call of the text-generation pipeline (lines 131-138) is given a length  *)
(* limit and no timeout, and the handler does not wrap it in one: nothing  *)
(* in the program forces the call to return.                               *)
(***************************************************************************)
\* the generation of a request when self.generator is None
GenerateLocal(c) ==
    /\ ai_engine.generator = None
    /\ Generate(c)

HandlerProgress ==
    /\ WF_vars(LookupSimilar(Worker))
    /\ WF_vars(GenerateLocal(Worker))
    /\ WF_vars(EnrichStep(Worker))
    /\ WF_vars(Persist(Worker))
    /\ WF_vars(Commit(Worker))
    /\ WF_vars(Respond(Worker))

SpecLive == Init /\ [][Next]_vars /\ HandlerProgress

(***************************************************************************)
(* The two read-only queries on a store that is already filled.            *)
(***************************************************************************)
\* rows of the largest store of a history request, and of a lookup
MaxRows == 52
MaxLookupRows == 8

\* The i-th row of a store of n rows, as the handlers leave rows: the id
\* and the timestamp grow with the order of the saves, the response is the
\* fallback strategy of the prompt.  times "tie": the two last saves read
\* the same time.  rated "rated": feedback was given for two rows of
\* three, with a positive score except for row 2 (score -1) and row 5
\* (score 0, earnings 20); rows 3k+1 and 3k+2 got the same score and differ
\* in their earnings, except rows 7 and 8, which got the same of both.
StoreRow(i, n, times, rated) ==
    [id |-> i,
     prompt_hash |-> get_prompt_hash(StorePrompt(i)),
     prompt |-> StorePrompt(i),
     response |-> generate_fallback_strategy(StorePrompt(i)),
     timestamp |-> IF times = "tie" /\ i = n THEN n - 1 ELSE i,
     success_score |->
        IF rated = "unrated" \/ i % 3 = 0 THEN DefaultSuccessScore
        ELSE IF i % 3 = 1 THEN i
        ELSE IF i = 2 THEN -1
        ELSE IF i = 5 THEN 0
        ELSE i - 1,
     earnings |->
        IF rated = "unrated" \/ i % 3 = 0 THEN DefaultEarnings
        ELSE IF i % 3 = 1 \/ i = 8 THEN 0
        ELSE 20]

StoreOf(n, times, rated) == {StoreRow(i, n, times, rated) : i \in 1..n}

\* the state in which the server, its model loaded, finds a store of up
\* to most rows
InitStore(most) ==
    /\ ai_engine = load_model("none")
    /\ \E n \in 0..most, times \in {"apart", "tie"}, rated \in {"unrated", "rated"} :
         /\ conversations = StoreOf(n, times, rated)
         /\ sqlite_sequence = n
         /\ clock = n
    /\ db_lock = None
    /\ req = [c \in Callers |-> Idle]
    /\ fb = NoFeedback
    /\ nreq = 0
    /\ nfb = 0
    /\ issued = {}
    /\ hist = NoHistory
    /\ call = NoCall
    /\ AppInit

\* prompts of the lookups
LookupPrompts ==
    { Chars(""), Chars(" "), Chars(" \t\n "), Chars("GIG"), Chars("sell blog"),
      Chars("a b c d e gig"), Chars("gig a b c d e"), Chars("2"), Chars("g_g"),
      Chars("%"), Chars("it's") }

\* one call of get_similar_strategies
GetSimilar(prompt) ==
    /\ call = NoCall
    /\ \E dbfail \in BOOLEAN :
         \E looked \in get_similar_strategies(conversations, prompt, dbfail) :
            call' = [fn |-> "get_similar_strategies", prompt |-> prompt,
                     dbfail |-> dbfail, exc |-> looked.exc, result |-> looked.val]
    /\ UNCHANGED <<app_vars, hist, ai_engine, conversations, sqlite_sequence, db_lock, clock, req,
                   fb, nreq, nfb, issued>>

NextLookup == \E prompt \in LookupPrompts : GetSimilar(prompt)

InitLookup == InitStore(MaxLookupRows)

SpecLookup == InitLookup /\ [][NextLookup]_vars

(***************************************************************************)
(* The functions of the module that read their arguments only, each        *)
(* called once on arguments put together from a few words or lines.        *)
(***************************************************************************)
\* words of the longest prompt, and lines of the longest strategy
MaxWords == 2
MaxLines == 2

\* sep.join(seqs)
RECURSIVE JoinWith(_, _)
JoinWith(seqs, sep) ==
    IF seqs = <<>> THEN <<>>
    ELSE IF Len(seqs) = 1 THEN seqs[1]
    ELSE seqs[1] \o sep \o JoinWith(Tail(seqs), sep)

\* the texts of up to n parts out of a set, joined by sep
Joined(parts, n, sep) ==
    {JoinWith(ps, sep) : ps \in UNION {[1..k -> parts] : k \in 0..n}}

\* prompts for generate_fallback_strategy: the twelve keywords of its
\* tests, some in capitals, and a word that is none of them
FallbackVocabulary ==
    { Chars("freelance"), Chars("GIG"), Chars("service"),
      Chars("online"), Chars("Digital"), Chars("internet"),
      Chars("sell"), Chars("Product"), Chars("ecommerce"),
      Chars("invest"), Chars("stock"), Chars("CRYPTO"), Chars("blog") }
FallbackPrompts ==
    Joined(FallbackVocabulary, MaxWords, <<" ">>)
    \cup { Chars("I want to freelance write articles"), Chars("invest in crypto"),
           Chars("random unrelated text") }

\* prompts for estimate_earnings: the seven keywords of its tests, amounts
\* in dollars, and words that are neither
EarningsVocabulary ==
    { Chars("day"), Chars("Today"), Chars("quickly"), Chars("week"), Chars("Weekly"),
      Chars("month"), Chars("monthly"), Chars("$1,500"), Chars("$20.50"),
      Chars("$7,5"), Chars("$"), Chars("earn") }
EarningsPrompts ==
    Joined(EarningsVocabulary, MaxWords, <<" ">>)
    \cup { Chars("Earn me $1,500 today"), Chars("Help me earn money this week") }
EarningsStrategies == { <<>>, Chars("1. Earn $900 this month, day by day") }

\* strategies for extract_suggested_actions: the texts of the engine, and
\* texts of a few lines
ActionLines ==
    { Chars("1. Set up necessary accounts today"),
      Chars("  2. 3-6 months of expenses saved  "),
      Chars("- Week 1: Setup and first attempts"),
      <<Bullet>> \o Chars(" Sell handmade items online"),
      Chars("3. Too short"),
      Chars("6. Aim for $20-50/hour within first month"),
      Chars("Remember: Success requires consistent action"),
      <<>> }
ActionTexts ==
    Joined(ActionLines, MaxLines, <<"\n">>)
    \cup {strategies[category] : category \in Categories}
    \cup {Text(generate_fallback_strategy(Chars("invest in crypto")))}
    \cup {<<"\t", "4", ".", " ">> \o Text(GeneratorPath(out).val) :
            out \in {o \in GeneratorOutcomes : o.kind = "text"}}

CallFallback(prompt) ==
    /\ call = NoCall
    /\ call' = [fn |-> "generate_fallback_strategy", prompt |-> prompt,
                result |-> generate_fallback_strategy(prompt)]
    /\ UNCHANGED <<app_vars, hist, ai_engine, conversations, sqlite_sequence, db_lock, clock, req,
                   fb, nreq, nfb, issued>>

CallExtract(strategy) ==
    /\ call = NoCall
    /\ call' = [fn |-> "extract_suggested_actions", strategy |-> strategy,
                result |-> extract_suggested_actions(strategy)]
    /\ UNCHANGED <<app_vars, hist, ai_engine, conversations, sqlite_sequence, db_lock, clock, req,
                   fb, nreq, nfb, issued>>

CallEstimate(prompt, strategy) ==
    /\ call = NoCall
    /\ call' = [fn |-> "estimate_earnings", prompt |-> prompt, strategy |-> strategy,
                result |-> estimate_earnings(prompt, strategy)]
    /\ UNCHANGED <<app_vars, hist, ai_engine, conversations, sqlite_sequence, db_lock, clock, req,
                   fb, nreq, nfb, issued>>

\* lines 379-391 without the save: the text that generate_money_strategy
\* returned is enriched with the note on the exchanges found, and the
\* suggested actions are taken from the enriched text
SuggestedActions(generated, similar) ==
    extract_suggested_actions(Text(Enrich(generated, similar)))

\* texts generate_money_strategy returns: the pipeline's, and a template
SuggestGenerated ==
    {GeneratorPath(out).val : out \in {o \in GeneratorOutcomes : o.kind = "text"}}
    \cup {generate_fallback_strategy(Chars("invest in crypto"))}

\* results of the lookup: the newest rows of a store, up to its limit
SuggestSimilar ==
    { [k \in 1..n |-> SimilarDict(StoreRow(n + 1 - k, n, "apart", "unrated"))] :
        n \in 0..SimilarLimit }

CallSuggest(generated, similar) ==
    /\ call = NoCall
    /\ call' = [fn |-> "suggested_actions", generated |-> generated,
                similar |-> similar, result |-> SuggestedActions(generated, similar)]
    /\ UNCHANGED <<app_vars, hist, ai_engine, conversations, sqlite_sequence, db_lock, clock, req,
                   fb, nreq, nfb, issued>>

NextText ==
    \/ \E prompt \in FallbackPrompts : CallFallback(prompt)
    \/ \E strategy \in ActionTexts : CallExtract(strategy)
    \/ \E prompt \in EarningsPrompts, strategy \in EarningsStrategies :
         CallEstimate(prompt, strategy)
    \/ \E generated \in SuggestGenerated, similar \in SuggestSimilar :
         CallSuggest(generated, similar)

SpecText == Init /\ [][NextText]_vars

NextHistory == History

InitHistory == InitStore(MaxRows)

SpecHistory == InitHistory /\ [][NextHistory]_vars

(***************************************************************************)
(* BotRunner of the desktop application.  run_bot is called on the Kivy    *)
(* main thread (run_bots, through run_all_bots) and on the thread of the   *)
(* scheduler (scheduled_bot_run, through run_all_bots); it takes no lock,  *)
(* so the two calls interleave statement by statement with each other and  *)
(* with the bot threads.                                                   *)
(***************************************************************************)
\* calls of run_bot in one behaviour
MaxRuns == 3

\* thread t calls run_bot(bot_name)
CallRunBot(t, bot_name) ==
    /\ run[t].pc = "idle"
    /\ nruns < MaxRuns
    /\ nruns' = nruns + 1
    /\ run' = [run EXCEPT ![t] = [pc |-> "check", bot_name |-> bot_name,
                                  id |-> nruns + 1, ret |-> None]]
    /\ UNCHANGED <<api_vars, running_bots, bot_results, bot_threads>>

\* lines 302-303
CheckRunning(t) ==
    /\ run[t].pc = "check"
    /\ run' = [run EXCEPT ![t] =
                  IF run[t].bot_name \in running_bots
                  THEN [@ EXCEPT !.pc = "idle", !.ret = "already running"]
                  ELSE [@ EXCEPT !.pc = "add"]]
    /\ UNCHANGED <<api_vars, running_bots, bot_results, bot_threads, nruns>>

\* line 305
AddRunning(t) ==
    /\ run[t].pc = "add"
    /\ running_bots' = running_bots \cup {run[t].bot_name}
    /\ run' = [run EXCEPT ![t].pc = "start"]
    /\ UNCHANGED <<api_vars, bot_results, bot_threads, nruns>>

\* lines 356-358: the thread is started and run_bot returns
StartThread(t) ==
    /\ run[t].pc = "start"
    /\ bot_threads' = bot_threads \cup
          { [id |-> run[t].id, bot_name |-> run[t].bot_name, pc |-> "try"] }
    /\ run' = [run EXCEPT ![t].pc = "idle", ![t].ret = "started"]
    /\ UNCHANGED <<api_vars, running_bots, bot_results, nruns>>

\* what the try statement of bot_thread stores in bot_results: the result
\* of the bot, the error of lines 326-327 for a name that is none of the
\* four, or the error of the except clause
BotOutcomes(bot_name) ==
    IF bot_name \in {"blog_bot", "ebook_bot", "freelance_bot", "email_bot"}
    THEN {"result", "raised"}
    ELSE {"unknown bot"}

\* lines 308-350
BotTry(th) ==
    /\ th \in bot_threads
    /\ th.pc = "try"
    /\ \E outcome \in BotOutcomes(th.bot_name) :
         bot_results' = [bot_results EXCEPT ![th.bot_name] = outcome]
    /\ bot_threads' = (bot_threads \ {th}) \cup {[th EXCEPT !.pc = "finally"]}
    /\ UNCHANGED <<api_vars, running_bots, run, nruns>>

\* lines 352-353, and the end of the thread
BotFinally(th) ==
    /\ th \in bot_threads
    /\ th.pc = "finally"
    /\ running_bots' = running_bots \ {th.bot_name}
    /\ bot_threads' = bot_threads \ {th}
    /\ UNCHANGED <<api_vars, bot_results, run, nruns>>

NextBots ==
    \/ \E t \in CallerThreads, bot_name \in BotNames : CallRunBot(t, bot_name)
    \/ \E t \in CallerThreads : CheckRunning(t)
    \/ \E t \in CallerThreads : AddRunning(t)
    \/ \E t \in CallerThreads : StartThread(t)
    \/ \E th \in bot_threads : BotTry(th)
    \/ \E th \in bot_threads : BotFinally(th)

\* the application as it starts, next to a server that has no request
InitBots == Init /\ ai_engine = load_model("none")

SpecBots == InitBots /\ [][NextBots]_vars

\* Every thread of the process is scheduled again and again, and the bots
\* return or raise.
BotsProgress ==
    /\ \A t \in CallerThreads :
          WF_vars(CheckRunning(t)) /\ WF_vars(AddRunning(t)) /\ WF_vars(StartThread(t))
    /\ \A id \in 1..MaxRuns, bot_name \in BotNames :
          /\ WF_vars(BotTry([id |-> id, bot_name |-> bot_name, pc |-> "try"]))
          /\ WF_vars(BotFinally([id |-> id, bot_name |-> bot_name, pc |-> "finally"]))

SpecBotsLive == SpecBots /\ BotsProgress

(***************************************************************************)
(* Properties.                                                             *)
(***************************************************************************)
Responded(c) == req[c].pc = "done"
IsTemp(id) == Len(id) > 5 /\ SubSeq(id, 1, 5) = <<"t","e","m","p","_">>
RowsOf(rows, hash) == {r \in rows : r.prompt_hash = hash}

\* the step in which save_conversation of caller c returns after its commit
CommittedSave(c) ==
    req[c].pc = "commit" /\ req'[c].pc = "postprocess" /\ req'[c].saved

\* the step in which save_conversation of caller c ends without a commit
FailedSave(c) ==
    /\ req[c].pc \in {"persist", "commit"}
    /\ req'[c].pc \notin {"persist", "commit"}
    /\ ~req'[c].saved

\* C1: every chat request ends in a 200 response that carries a strategy,
\* whether the model is loaded or not and whatever failed on the way (the
\* generator call, the similarity lookup, the store); no request ends in
\* the 500 of the handler.
C1_ChatAlways200 ==
    \A c \in Callers :
        /\ req[c].status # 500
        /\ Responded(c) => req[c].status = 200 /\ req[c].strategy # <<>>

\* a 200 response of a request for "gig" in which all three failed, with
\* the model loaded: the lookup returned nothing although a row for "Gig"
\* is stored, the generator call raised and the save failed
C1_Witness ==
    \E c \in Callers :
        /\ Responded(c) /\ req[c].status = 200
        /\ ai_engine.model # None
        /\ req[c].prompt = <<"g","i","g">>
        /\ req[c].similar = <<>>
        /\ \E r \in conversations : r.prompt = <<"G","i","g">>
        /\ req[c].outcome = "raise"
        /\ ~req[c].saved

\* The store holds at most one row per fingerprint, the fingerprint is
\* that of the row's prompt and is the same for prompts that are equal
\* after lowercasing; a committed save leaves exactly one row for its
\* fingerprint, holding the prompt and response of that call, and adds a
\* row only when the fingerprint was new.
C2_SameLowercaseSameHash ==
    \A p1, p2 \in Prompts :
        StrLower(p1) = StrLower(p2) => get_prompt_hash(p1) = get_prompt_hash(p2)

C2_OneRowPerFingerprintInv ==
    /\ \A r1, r2 \in conversations : r1.prompt_hash = r2.prompt_hash => r1 = r2
    /\ \A r \in conversations : r.prompt_hash = get_prompt_hash(r.prompt)
    /\ C2_SameLowercaseSameHash

C2_SaveOverwritesStep ==
    \A c \in Callers :
        CommittedSave(c) =>
            LET h == get_prompt_hash(req[c].prompt)
            IN  /\ \E r \in conversations' :
                      /\ RowsOf(conversations', h) = {r}
                      /\ r.prompt = req[c].prompt
                      /\ r.response = req[c].strategy
                /\ Cardinality(conversations') =
                      IF RowsOf(conversations, h) = {}
                      THEN Cardinality(conversations) + 1
                      ELSE Cardinality(conversations)

\* C2: at most one row per fingerprint in every state, and every committed
\* save overwrites the row of its fingerprint instead of adding one.
C2_OneRowPerFingerprint ==
    [](C2_OneRowPerFingerprintInv) /\ [][C2_SaveOverwritesStep]_vars

\* "gig" was saved after "Gig": one row, written by the second save
C2_Witness ==
    /\ Cardinality(conversations) = 1
    /\ \E r \in conversations : r.prompt = <<"g","i","g">> /\ r.id = 2
    /\ Cardinality(issued) = 2

\* C3: with two callers saving in parallel, the store never holds two rows
\* of one fingerprint; once both have saved prompts with the same lowercased
\* text it holds exactly one row for it, and no request ends in an error.
C3_ConcurrentUpsertOneRow ==
    /\ \A r1, r2 \in conversations : r1.prompt_hash = r2.prompt_hash => r1 = r2
    /\ \A c \in Callers : req[c].status # 500
    /\ \A c, d \in Callers :
          (/\ c # d
           /\ req[c].saved /\ req[d].saved
           /\ get_prompt_hash(req[c].prompt) = get_prompt_hash(req[d].prompt))
          => Cardinality(RowsOf(conversations, get_prompt_hash(req[c].prompt))) = 1

\* both callers were inside save_conversation together, for "Gig" and
\* "gig", and both have committed
C3_Witness ==
    /\ req["w1"].pc = "postprocess" /\ req["w2"].pc = "postprocess"
    /\ req["w1"].saved /\ req["w2"].saved
    /\ req["w1"].prompt = <<"G","i","g">> /\ req["w2"].prompt = <<"g","i","g">>
    /\ nreq = 2

\* A save that fails returns "temp_" followed by the current time,
\* leaves the store as it was and does not raise: the request goes on to
\* its response, which is a 200 with that identifier as strategy_id.
C4_FailedSaveStep ==
    \A c \in Callers :
        FailedSave(c) =>
            /\ conversations' = conversations
            /\ req'[c].pc = "postprocess"
            /\ req'[c].strategy_id = TempId(clock)

C4_FailedSaveInv ==
    \A c \in Callers :
        /\ req[c].status # 500
        /\ (req[c].pc \in {"postprocess", "done"} /\ ~req[c].saved)
              => IsTemp(req[c].strategy_id)
        /\ Responded(c) => req[c].status = 200

\* C4: save_conversation never raises; a failed save returns the "temp_"
\* identifier of the current time, changes no row, and the request is
\* answered with that identifier.
C4_SaveNeverRaises == [](C4_FailedSaveInv) /\ [][C4_FailedSaveStep]_vars

\* a response that carries the identifier made at time 1 by a failed save
C4_Witness ==
    \E c \in Callers :
        /\ Responded(c) /\ req[c].status = 200 /\ ~req[c].saved
        /\ req[c].strategy_id = <<"t","e","m","p","_","1",".","0">>

\* the request of caller c has left generate_money_strategy
Generated(c) == req[c].pc \in {"enrich", "persist", "commit", "postprocess", "done"}

\* C5: generate_money_strategy does not raise to the handler, and when the
\* generator is None (the model was not loaded, or loading it failed), when
\* its call raises or when its result cannot be read, the strategy returned
\* is the one generate_fallback_strategy gives for the prompt of the request.
C5_GenerateFallsBack ==
    \A c \in Callers :
        /\ req[c].status # 500
        /\ Generated(c) =>
              /\ req[c].outcome \in {"not called", "raise", "malformed"}
                    => req[c].generated =
                         << [t |-> "customized", prompt |-> req[c].prompt,
                             base_strategy |-> Category(req[c].prompt)] >>
              /\ ai_engine.generator = None => req[c].outcome = "not called"
              /\ req[c].generated # <<>>

\* the generator returned something unreadable for "gig", and the request
\* was answered with the freelance fallback
C5_Witness ==
    \E c \in Callers :
        /\ Responded(c) /\ req[c].status = 200
        /\ req[c].outcome = "malformed"
        /\ req[c].generated =
              << [t |-> "customized", prompt |-> <<"g","i","g">>,
                  base_strategy |-> "freelance"] >>

\* C6 as amended: confidence is min(base + bonus, 0.95) with base 0.8 when
\* the model is loaded (whether or not the generator call of the request
\* succeeded) and 0.6 when it is not, and bonus 0.1 when the lookup of the
\* request returned at least one exchange.
C6_ConfidenceByModel ==
    \A c \in Callers :
        (Responded(c) /\ req[c].status = 200) =>
            req[c].confidence =
                CASE ai_engine.model # None /\ req[c].similar # <<>> -> 90
                  [] ai_engine.model # None /\ req[c].similar = <<>> -> 80
                  [] ai_engine.model = None /\ req[c].similar # <<>> -> 70
                  [] ai_engine.model = None /\ req[c].similar = <<>> -> 60

\* a response built from the fallback after the generator raised, with
\* one similar exchange found: confidence 0.9
C6_Witness ==
    \E c \in Callers :
        /\ Responded(c) /\ req[c].status = 200
        /\ req[c].outcome = "raise"
        /\ Len(req[c].similar) = 1
        /\ req[c].confidence = 90

\* C6 as stated: base 0.8 if the generator produced the strategy of the
\* request, 0.6 whenever the strategy is the fallback.
C6_ConfidenceByProvenance ==
    \A c \in Callers :
        (Responded(c) /\ req[c].status = 200) =>
            req[c].confidence =
                Min((IF req[c].outcome = "text" THEN 80 ELSE 60)
                    + (IF req[c].similar # <<>> THEN 10 ELSE 0), 95)

\* C7: the confidence of every response is one of 0.6, 0.7, 0.8, 0.9 and
\* lies in [0, 0.95].
C7_ConfidenceRange ==
    \A c \in Callers :
        (Responded(c) /\ req[c].status = 200) =>
            /\ req[c].confidence \in {60, 70, 80, 90}
            /\ 0 <= req[c].confidence /\ req[c].confidence <= 95

\* the second request of a behaviour, answered without the model and with
\* a similar exchange: 0.7
C7_Witness ==
    \E c \in Callers :
        /\ Responded(c) /\ req[c].status = 200
        /\ nreq = 2
        /\ req[c].confidence = 70

\* C8: feedback whose identifier matches no stored row does not report
\* success.
C8_UnknownIdNotSuccess == fb.status = 200 => fb.matched > 0

\* C9: every identifier a committed save returned still identifies a row,
\* and that row is the exchange of the fingerprint it was returned for.
C9_IdentifierStable ==
    \A i \in issued :
        \E r \in conversations :
            /\ PyStr(r.id) = i.strategy_id
            /\ r.prompt_hash = i.prompt_hash

\* In a step that is no feedback call, every exchange that stays keeps its
\* success_score and earnings.
C10_SaveKeepsFeedbackStep ==
    nfb' = nfb =>
        \A r \in conversations : \A q \in RowsOf(conversations', r.prompt_hash) :
            q.success_score = r.success_score /\ q.earnings = r.earnings

\* C10: success_score and earnings of an exchange change through feedback
\* only; a repeated save of the same normalized prompt keeps them.
C10_SaveKeepsFeedback == [][C10_SaveKeepsFeedbackStep]_vars

\* C11: the timestamp of an exchange is set when the exchange is created
\* and stays: no step, a repeated save of the same normalized prompt and a
\* feedback call included, changes the timestamp of a stored exchange.
C11_CreatedAtSetOnceStep ==
    \A r \in conversations : \A q \in RowsOf(conversations', r.prompt_hash) :
        q.timestamp = r.timestamp
C11_CreatedAtSetOnce == [][C11_CreatedAtSetOnceStep]_vars

\* every fingerprint a committed save was made for has a row
C12_RowKeptInv ==
    \A i \in issued : RowsOf(conversations, i.prompt_hash) # {}

\* no step takes the row of a fingerprint away or lowers the number of rows
C12_RowKeptStep ==
    /\ \A r \in conversations : RowsOf(conversations', r.prompt_hash) # {}
    /\ Cardinality(conversations') >= Cardinality(conversations)

\* C12: exchanges are never deleted: once a save for a prompt was
\* committed, every later state holds a row for its fingerprint, and the
\* number of rows never decreases, under chat, feedback and history requests.
C12_NeverDeleted == [](C12_RowKeptInv) /\ [][C12_RowKeptStep]_vars

\* a row that was replaced by a second save of its prompt, after a
\* feedback call and with the answer of a history request at hand
C12_Witness ==
    /\ Cardinality(issued) = 2
    /\ Cardinality(conversations) = 1
    /\ nfb = 1
    /\ hist.status = 200 /\ hist.total_strategies = 1

\* the rows C13 names for a prompt: those whose prompt holds, without
\* regard to case, one of the first five tokens of the prompt
C13_Named(rows, prompt) ==
    LET tokens == Take(Split(StrLower(prompt)), 5)
    IN  {r \in rows : \E i \in 1..Len(tokens) : Contains(StrLower(r.prompt), tokens[i])}

\* C13: a lookup that the store answers returns exactly the rows whose
\* prompt contains one of the first five tokens of the prompt as a
\* case-insensitive substring, the most recent first, cut to five rows;
\* the tokens after the fifth change nothing.
C13_SimilarBySubstring ==
    (call.fn = "get_similar_strategies" /\ ~call.dbfail) =>
        LET named == C13_Named(conversations, call.prompt)
            res == call.result
        IN  /\ ~call.exc
            /\ Len(res) = Min(Cardinality(named), 5)
            /\ \A i \in 1..Len(res) : \E r \in named : res[i] = SimilarDict(r)
            /\ \A i, j \in 1..Len(res) :
                  i < j => res[i].id # res[j].id /\ res[i].timestamp >= res[j].timestamp
            /\ \A r \in named :
                  (\A i \in 1..Len(res) : res[i].id # r.id) =>
                      \A i \in 1..Len(res) : res[i].timestamp >= r.timestamp

\* C14: a lookup for a prompt that is empty or all whitespace returns the
\* empty list and does not raise, whatever the store holds and whether the
\* store answers or not.
C14_EmptyPromptEmptyList ==
    (call.fn = "get_similar_strategies" /\ Split(call.prompt) = <<>>) =>
        ~call.exc /\ call.result = <<>>

\* the lookup for " " on a store that answers, with more than five rows,
\* which all hold a space in their prompt
C14_Witness ==
    /\ call.fn = "get_similar_strategies"
    /\ call.prompt = <<" ">>
    /\ ~call.dbfail
    /\ call.result = <<>>
    /\ Cardinality(conversations) > SimilarLimit
    /\ \A r \in conversations : Contains(r.prompt, <<" ">>)

\* the keyword sets of C15, the first of highest priority
C15_Rules ==
    << [category |-> "freelance", keywords |-> {"freelance", "gig", "service"}],
       [category |-> "online", keywords |-> {"online", "digital", "internet"}],
       [category |-> "ecommerce", keywords |-> {"sell", "product", "ecommerce"}],
       [category |-> "investment", keywords |-> {"invest", "stock", "crypto"}] >>

C15_Matching(prompt) ==
    {i \in 1..Len(C15_Rules) :
        \E k \in C15_Rules[i].keywords : Contains(StrLower(prompt), Chars(k))}

C15_Category(prompt) ==
    IF C15_Matching(prompt) = {} THEN "online"
    ELSE C15_Rules[SetMin(C15_Matching(prompt))].category

\* C15: the fallback strategy of a prompt is the frame around the prompt
\* and the template of its category, and the category is that of the first
\* keyword set, in the order freelance, online, ecommerce, investment, with
\* a keyword in the lowercased prompt, and online when there is none; the
\* three prompts named in the claim get freelance, investment and online.
C15_FallbackByPriority ==
    call.fn = "generate_fallback_strategy" =>
        LET category == C15_Category(call.prompt)
        IN  /\ call.result = << [t |-> "customized", prompt |-> call.prompt,
                                 base_strategy |-> category] >>
            /\ Text(call.result) =
                  CustomizedHead \o call.prompt \o CustomizedMid
                  \o strategies[category] \o CustomizedTail
            /\ call.prompt = Chars("I want to freelance write articles")
                  => category = "freelance"
            /\ call.prompt = Chars("invest in crypto") => category = "investment"
            /\ call.prompt = Chars("random unrelated text") => category = "online"

\* the prompt "invest GIG": a keyword of the last set before one of the
\* first set, and the template is that of the first set
C15_Witness ==
    /\ call.fn = "generate_fallback_strategy"
    /\ call.prompt = Chars("invest GIG")
    /\ call.result[1].base_strategy = "freelance"

\* the list markers of C17 and the characters that are content
C17_Markers ==
    { <<"1", ".">>, <<"2", ".">>, <<"3", ".">>, <<"4", ".">>, <<"5", ".">>,
      <<"-">>, <<Bullet>> }
C17_IsContent(c) ==
    \/ IsDigit(c)
    \/ \E i \in 1..Len(UpperChars) : c = UpperChars[i] \/ c = LowerChars[i]
C17_HasMarker(line) == \E m \in C17_Markers : StartsWith(line, m)
C17_AfterMarker(line) ==
    LET m == CHOOSE k \in C17_Markers : StartsWith(line, k)
    IN  SubSeq(line, Len(m) + 1, Len(line))

\* the trimmed lines that qualify, in the order of the text
C17_Qualifying(strategy) ==
    LET lines == SplitLines(strategy)
    IN  SelectSeq([i \in 1..Len(lines) |-> Strip(lines[i])],
                  LAMBDA line : C17_HasMarker(line)
                                /\ Len(Strip(C17_AfterMarker(line))) > 10)

\* item is line without its marker and without whitespace and punctuation
\* next to the marker; no letter and no digit after the marker is gone
C17_OnlyMarkerRemoved(line, item) ==
    LET rest == C17_AfterMarker(line)
    IN  \E k \in 0..Len(rest) :
            /\ item = SubSeq(rest, k + 1, Len(rest))
            /\ \A i \in 1..k : ~C17_IsContent(rest[i])

\* C17: extract_suggested_actions returns, in the order of the text, the
\* first five qualifying lines at most, each without its marker and the
\* whitespace and punctuation around it and otherwise intact; of the seven
\* numbered lines of a template it returns five.
C17_FirstFiveActions ==
    call.fn = "extract_suggested_actions" =>
        LET qualifying == C17_Qualifying(call.strategy)
        IN  /\ Len(call.result) = Min(Len(qualifying), 5)
            /\ \A i \in 1..Len(call.result) :
                  C17_OnlyMarkerRemoved(qualifying[i], call.result[i])
            /\ (\E category \in Categories : call.strategy = strategies[category])
                  => Len(call.result) = 5

\* an amount in dollars: digits, groups of a comma and three digits,
\* and cents
C18_IsAmount(x) ==
    \E d \in 1..Len(x), g \in 0..Len(x), c \in {0, 1} :
        /\ Len(x) = d + 4 * g + 3 * c
        /\ \A i \in 1..d : IsDigit(x[i])
        /\ \A j \in 0..(g - 1) :
              /\ x[d + 4 * j + 1] = ","
              /\ \A i \in 2..4 : IsDigit(x[d + 4 * j + i])
        /\ c = 1 => /\ x[d + 4 * g + 1] = "."
                    /\ IsDigit(x[d + 4 * g + 2]) /\ IsDigit(x[d + 4 * g + 3])

C18_DollarSigns(prompt) ==
    {i \in 1..(Len(prompt) - 1) : prompt[i] = "$" /\ IsDigit(prompt[i + 1])}

\* the longest amount after the first "$" that a digit follows
C18_FirstAmount(prompt) ==
    LET i == SetMin(C18_DollarSigns(prompt))
        ends == {e \in (i + 1)..Len(prompt) : C18_IsAmount(SubSeq(prompt, i + 1, e))}
    IN  SubSeq(prompt, i + 1, SetMax(ends))

\* C18: for a prompt with an amount in dollars estimate_earnings returns
\* the first amount, its commas removed, as "Target: $... (as specified)",
\* whatever keywords and later amounts the prompt holds; "Earn me $1,500
\* today" gives $1500.
C18_DollarAmountWins ==
    (call.fn = "estimate_earnings" /\ C18_DollarSigns(call.prompt) # {}) =>
        /\ call.result =
              Chars("Target: $")
              \o SelectSeq(C18_FirstAmount(call.prompt), LAMBDA c : c # ",")
              \o Chars(" (as specified)")
        /\ call.prompt = Chars("Earn me $1,500 today")
              => call.result = Chars("Target: $1500 (as specified)")

\* the prompt of the claim, which holds the keyword "today", with a
\* strategy that names another amount
C18_Witness ==
    /\ call.fn = "estimate_earnings"
    /\ call.prompt = Chars("Earn me $1,500 today")
    /\ call.strategy # <<>>
    /\ call.result = Chars("Target: $1500 (as specified)")

C19_Has(prompt, keywords) ==
    \E k \in keywords : Contains(StrLower(prompt), Chars(k))

\* C19: for a prompt without an amount in dollars estimate_earnings returns
\* the string of the first of day/today/quickly, week/weekly, month/monthly
\* that the lowercased prompt holds, and the typical range otherwise; the
\* strategy has no part in it; "Help me earn money this week" gives the
\* weekly string.
C19_KeywordEstimate ==
    (call.fn = "estimate_earnings" /\ C18_DollarSigns(call.prompt) = {}) =>
        /\ call.result =
              IF C19_Has(call.prompt, {"day", "today", "quickly"})
              THEN Chars("$50-200 (short-term)")
              ELSE IF C19_Has(call.prompt, {"week", "weekly"})
              THEN Chars("$200-1000 (weekly potential)")
              ELSE IF C19_Has(call.prompt, {"month", "monthly"})
              THEN Chars("$1000-5000 (monthly potential)")
              ELSE Chars("$100-500 (typical range)")
        /\ call.prompt = Chars("Help me earn money this week")
              => call.result = Chars("$200-1000 (weekly potential)")

\* the prompt of the claim with a strategy that names an amount, a month
\* and a day
C19_Witness ==
    /\ call.fn = "estimate_earnings"
    /\ call.prompt = Chars("Help me earn money this week")
    /\ Contains(call.strategy, Chars("$900 this month, day"))
    /\ call.result = Chars("$200-1000 (weekly potential)")

\* the category C15 gives each prompt of the requests
C16_CategoryOf == [p \in Prompts |-> C15_Category(p)]

\* t1 and t2 are one text around p1 and around p2
C16_DifferInPromptOnly(t1, p1, t2, p2) ==
    \E h \in 0..Len(t1) :
        /\ h + Len(p1) <= Len(t1) /\ h + Len(p2) <= Len(t2)
        /\ SubSeq(t1, 1, h) = SubSeq(t2, 1, h)
        /\ SubSeq(t1, h + 1, h + Len(p1)) = p1
        /\ SubSeq(t2, h + 1, h + Len(p2)) = p2
        /\ SubSeq(t1, h + Len(p1) + 1, Len(t1)) = SubSeq(t2, h + Len(p2) + 1, Len(t2))

\* the fallback texts of two prompts of one category differ in the prompt
\* of the header only, and hold the seven steps of the category
C16_SameBodyAndFooter ==
    \A p1, p2 \in Prompts :
        C16_CategoryOf[p1] = C16_CategoryOf[p2] =>
            LET t1 == Text(generate_fallback_strategy(p1))
                t2 == Text(generate_fallback_strategy(p2))
            IN  /\ C16_DifferInPromptOnly(t1, p1, t2, p2)
                /\ Contains(t1, Unlines(StrategyLines[C16_CategoryOf[p1]]))

C20_Before(a, b) ==
    \/ a.success_score > b.success_score
    \/ a.success_score = b.success_score /\ a.earnings > b.earnings

\* list is the first most of the rows in the order in which no row stands
\* after one that Ahead puts behind it
C20_FirstOf(list, rows, most, Ahead(_, _)) ==
    /\ Len(list) = Min(Cardinality(rows), most)
    /\ \A i \in 1..Len(list) :
          \E r \in rows :
              /\ r.id = list[i].id /\ r.prompt = list[i].prompt
              /\ r.success_score = list[i].success_score
              /\ r.earnings = list[i].earnings
    /\ \A i, j \in 1..Len(list) :
          i < j => list[i].id # list[j].id /\ ~Ahead(list[j], list[i])
    /\ \A r \in rows :
          (\A i \in 1..Len(list) : list[i].id # r.id) =>
              \A i \in 1..Len(list) : ~Ahead(r, list[i])

\* the exchanges that show a feedback call: a value that is not the default
C20_Rated(rows) ==
    {r \in rows : r.success_score # DefaultSuccessScore \/ r.earnings # DefaultEarnings}

\* C20: a history response lists in conversations the 50 most recently
\* written exchanges, the latest first, and in top_performing the first 10
\* of the exchanges that received feedback, by success_score descending and
\* by earnings descending among equal scores.
C20_HistoryLists ==
    hist.status = 200 =>
        /\ C20_FirstOf(hist.conversations, conversations, 50,
                       LAMBDA a, b : a.timestamp > b.timestamp)
        /\ C20_FirstOf(hist.top_performing, C20_Rated(conversations), 10, C20_Before)

\* C21: a chat request in which a stage raised an error that the stage
\* does not handle ends in one 500 response that carries no field of the
\* success payload; the step that raises writes nothing, and the exchange
\* the request committed before the error is still the row of its
\* fingerprint afterwards.
C21_ErrorResponse(c) ==
    req[c].status = 500 =>
        /\ Responded(c)
        /\ req[c].confidence = 0
        /\ req[c].saved =>
              \E r \in conversations :
                  /\ r.prompt_hash = get_prompt_hash(req[c].prompt)
                  /\ r.response = req[c].strategy
                  /\ PyStr(r.id) = req[c].strategy_id

C21_RaiseStep(c) ==
    /\ req'[c].status = 500 /\ req[c].status # 500 =>
          /\ req[c].status = 0
          /\ conversations' = conversations
          /\ sqlite_sequence' = sqlite_sequence
    /\ req[c].status = 500 /\ req'[c] # req[c] => req'[c].pc = "lookup"

C21_UnhandledErrorIs500 ==
    /\ [](\A c \in Callers : C21_ErrorResponse(c))
    /\ [][\A c \in Callers : C21_RaiseStep(c)]_vars

\* a 500 response of a request whose exchange is in the store, and one
\* of a request that had written nothing
C21_Witness ==
    /\ req[Worker].status = 500
    /\ req[Worker].saved
    /\ req[Worker].similar # <<>>
    /\ \E r \in conversations : r.response = req[Worker].strategy

\* C22: every chat request that was accepted is answered; in particular
\* no request stays in the generation stage for ever.
C22_Accepted(c) == req[c].pc \notin {"idle", "done"}

C22_EveryRequestAnswered ==
    \A c \in Callers :
        /\ C22_Accepted(c) ~> Responded(c)
        /\ ~<>[](req[c].pc = "generate")

\* C23: a chat request goes through lookup, generate, enrich, persist,
\* post-process and respond in this order, each once; the lookup result is
\* set in the lookup stage only, and the row the request writes later has
\* an identifier no row had before, so it is none of the rows the lookup
\* read; the response of the row written is the generated text as
\* enriched, with the note exactly when the lookup found an exchange.
C23_StageOrder ==
    { <<"idle", "lookup">>, <<"done", "lookup">>, <<"lookup", "generate">>,
      <<"generate", "enrich">>, <<"enrich", "persist">>, <<"persist", "commit">>,
      <<"persist", "postprocess">>, <<"commit", "postprocess">>,
      <<"postprocess", "done">> }

C23_HasNote(text) == \E k \in 1..Len(text) : text[k].t = "insights"

C23_Step(c) ==
    /\ req'[c].pc # req[c].pc => <<req[c].pc, req'[c].pc>> \in C23_StageOrder
    /\ req'[c].similar # req[c].similar =>
          req[c].pc = "lookup" \/ req'[c].pc = "lookup"
    /\ req[c].pc = "lookup" /\ req'[c].pc = "generate" => ~req[c].saved
    /\ sqlite_sequence' >= sqlite_sequence
    /\ CommittedSave(c) =>
          \E r \in conversations' :
              /\ PyStr(r.id) = req'[c].strategy_id
              /\ r.id > sqlite_sequence
              /\ r.prompt = req[c].prompt
              /\ r.response = Enrich(req[c].generated, req[c].similar)
              /\ C23_HasNote(r.response) <=> req[c].similar # <<>>

C23_StagesInOrder ==
    /\ [](\A r \in conversations : r.id <= sqlite_sequence)
    /\ [][\A c \in Callers : C23_Step(c)]_vars

\* a request for which the lookup found an exchange has committed its row,
\* whose response carries the note
C23_Witness ==
    /\ req[Worker].pc = "postprocess"
    /\ req[Worker].saved
    /\ req[Worker].similar # <<>>
    /\ \E r \in conversations :
          /\ PyStr(r.id) = req[Worker].strategy_id
          /\ C23_HasNote(r.response)

\* C24: a feedback request that succeeds sets success_score and earnings
\* of the row whose id is the strategy_id sent to the values sent (earnings
\* to 0 when the request has none) and changes nothing else: the other
\* columns of that row and all the other rows are as before.
C24_FeedbackStep == nfb' = nfb + 1 /\ fb'.status = 200

C24_GivenEarnings == IF call'.earnings = <<>> THEN 0 ELSE call'.earnings[1]

C24_After(r) ==
    IF PyStr(r.id) = call'.strategy_id
    THEN [id |-> r.id, prompt_hash |-> r.prompt_hash, prompt |-> r.prompt,
          response |-> r.response, timestamp |-> r.timestamp,
          success_score |-> call'.success_score, earnings |-> C24_GivenEarnings]
    ELSE r

C24_FeedbackFrame ==
    [][C24_FeedbackStep =>
          /\ conversations' = {C24_After(r) : r \in conversations}
          /\ sqlite_sequence' = sqlite_sequence]_vars

\* feedback without earnings for one of two rows: that row holds the score
\* sent and earnings 0, the other one the default score
C24_Witness ==
    /\ call.fn = "submit_feedback"
    /\ call.earnings = <<>>
    /\ fb.status = 200 /\ fb.matched = 1
    /\ \E r, o \in conversations :
          /\ PyStr(r.id) = call.strategy_id
          /\ r.success_score = call.success_score /\ r.earnings = 0
          /\ o.id # r.id /\ o.success_score = DefaultSuccessScore

\* C25: an identifier that a committed save returned for a prompt is never
\* the id of a row of another fingerprint and is never returned for
\* another fingerprint; a feedback request that sends it leaves the rows
\* of every other fingerprint as they are.
C25_IdKeepsFingerprint ==
    \A i \in issued :
        /\ \A r \in conversations :
              PyStr(r.id) = i.strategy_id => r.prompt_hash = i.prompt_hash
        /\ \A j \in issued :
              j.strategy_id = i.strategy_id => j.prompt_hash = i.prompt_hash

C25_OldIdFeedback ==
    nfb' = nfb + 1 =>
        \A i \in issued :
            call'.strategy_id = i.strategy_id =>
                \A r \in conversations :
                    r.prompt_hash # i.prompt_hash => r \in conversations'

C26_FeedbackOnAnswer(c) ==
    /\ nfb' = nfb + 1
    /\ req[c].status = 200
    /\ call'.strategy_id = req[c].strategy_id
    /\ ~call'.dbfail

C26_ReturnedIdAccepted ==
    [][\A c \in Callers : C26_FeedbackOnAnswer(c) => fb'.status # 500]_vars

\* C27: every suggested action of a chat response is an action line of
\* the text the generation returned, and none is a "Previous approach"
\* line of the note added to it.
C27_NoteLine == Chars("Previous approach: ")

C27_StepsOf(generated) ==
    LET steps == ActionsOf(SplitLines(Text(generated)))
    IN  {steps[j] : j \in 1..Len(steps)}

C27_OnlyGeneratedSteps ==
    call.fn = "suggested_actions" =>
        \A i \in 1..Len(call.result) :
            /\ call.result[i] \in C27_StepsOf(call.generated)
            /\ ~StartsWith(call.result[i], C27_NoteLine)

\* C28: total_strategies of a history response is the number of rows the
\* store holds when the request is answered.
C28_TotalIsStoreSize ==
    hist.status = 200 => hist.total_strategies = Cardinality(conversations)

\* C29: at no time are two threads of the same bot alive, and run_bot
\* starts a thread only when none of that bot is alive.
C29_Alive(bot_name) == {th \in bot_threads : th.bot_name = bot_name}

C29_OneThreadPerBot ==
    \A bot_name \in BotNames : Cardinality(C29_Alive(bot_name)) <= 1

\* C30: a bot name that is in running_bots is taken out of it again, and
\* at every moment a name is in running_bots exactly when a thread of that
\* bot is alive or is being started by the run_bot call that added it.
C30_Starting(bot_name) ==
    \E t \in CallerThreads : run[t].pc = "start" /\ run[t].bot_name = bot_name

C30_Executing(bot_name) ==
    (\E th \in bot_threads : th.bot_name = bot_name) \/ C30_Starting(bot_name)

C30_RunningIsExecuting ==
    \A bot_name \in BotNames :
        /\ (bot_name \in running_bots) ~> (bot_name \notin running_bots)
        /\ [](bot_name \in running_bots <=> C30_Executing(bot_name))

====
